---- MODULE Spec2Model ----
(***************************************************************************)
(* 3DR Radio status plugin (src/plugins/3dr_radio.cpp).                    *)
(*                                                                         *)
(* TDRRadioStatus is the diagnostic task that keeps the last radio status  *)
(* sample under a boost::recursive_mutex; TDRRadioPlugin feeds it from     *)
(* message_rx_cb and republishes every sample it stores.  Producer threads *)
(* execute message_rx_cb, reader threads execute TDRRadioStatus::run.      *)
(* Every statement of message_rx_cb, handle_message and set() that touches *)
(* shared state is one step; run() is its call, the lock, and four steps   *)
(* under the lock (summary, the two dBm locals, the nine addf lines,       *)
(* return).                                                                *)
(***************************************************************************)
EXTENDS Integers, Sequences, FiniteSets, TLC

(* ------------------------------ bounds -------------------------------- *)

\* calls of message_rx_cb in one behaviour
MaxMsgs == 2

Producers == {"p1", "p2"}

Readers == {"r1", "r2"}

\* the thread of the diagnostic updater, which polls run() in the plugin
UpdaterThreads == {"r1"}

\* the thread of the one connection that delivers messages
ReceiveThreads == {"p1"}

Threads == Producers \cup Readers

NoThread == "none"

(* --------------------------- program constants ------------------------ *)

MAVLINK_MSG_ID_RADIO_STATUS == 109

MAVLINK_MSG_ID_RADIO == 166

\* a message id the switch of message_rx_cb has no case for
MAVLINK_MSG_ID_HEARTBEAT == 0

\* '3' and 'D'
SYSID_3DR == 51

COMPID_3DR == 68

\* tdr_diag("3DR Radio", 40)
PLUGIN_LOW_RSSI == 40

UINT8_MAX == 255

UINT16_MAX == 65535

(* ------------------------ mavlink_radio_status_t ---------------------- *)

\* the seven fields in the order of the RST_COPY lines
FieldOrder == <<"rssi", "remrssi", "txbuf", "noise", "remnoise", "rxerrors", "fixed">>

MkRst(a, b, c, d, e, f, g) ==
    [rssi |-> a, remrssi |-> b, txbuf |-> c, noise |-> d, remnoise |-> e,
     rxerrors |-> f, fixed |-> g]

\* last_rst{} : value-initialised struct
ZeroRst == MkRst(0, 0, 0, 0, 0, 0, 0)

\* payloads the producers deliver; any two differ in every field and none
\* has a zero field, so a record assembled from two payloads (or from a
\* payload and the initial struct) is not a payload
Samples ==
    { MkRst(30, 50, 100, 10, 20, UINT16_MAX, 1),
      MkRst(40, 40, 99, 11, 21, 256, 2) }

\* (sysid, compid) pairs of inbound messages
Idents == { <<SYSID_3DR, COMPID_3DR>>, <<1, COMPID_3DR>> }

MsgIds == {MAVLINK_MSG_ID_RADIO_STATUS, MAVLINK_MSG_ID_RADIO, MAVLINK_MSG_ID_HEARTBEAT}

Messages == [msgid : MsgIds, ident : Idents, payload : Samples]

\* mavlink_msg_radio_status_decode / mavlink_msg_radio_decode: the payload's
\* seven fields, field for field, into the local struct rst
Decode(payload) == [f \in {FieldOrder[i] : i \in 1..7} |-> payload[f]]

\* no call in progress
NoMsg == [msgid |-> -1, ident |-> <<0, 0>>, rst |-> ZeroRst, late |-> FALSE,
          sets |-> 0, pubs |-> 0]

(* ------------------------------ formatting ---------------------------- *)

Digit(d) == <<"0", "1", "2", "3", "4", "5", "6", "7", "8", "9">>[d + 1]

\* printf "%u"
RECURSIVE FmtU(_)
FmtU(n) == IF n < 10 THEN Digit(n) ELSE FmtU(n \div 10) \o Digit(n % 10)

\* faulty variant: offset 128 in place of 127
Dbm19_Offset128(x) == 10 * x - 128 * 19

\* (x / 1.9) - 127 kept exactly, as the numerator of a fraction over 19
Dbm19(x) == 10 * x - 127 * 19

\* printf "%.1f" of n19/19: rounded to the nearest tenth (n19*10/19 is never
\* half way between two tenths, 19 being odd)
FmtF1(n19) ==
    LET tenths == (20 * n19 + 19) \div 38
        mag    == IF tenths < 0 THEN -tenths ELSE tenths
    IN  (IF tenths < 0 THEN "-" ELSE "") \o FmtU(mag \div 10) \o "." \o Digit(mag % 10)

(* -------------------------------- state ------------------------------- *)

VARIABLES
    data_received,     \* TDRRadioStatus::data_received
    last_rst,          \* TDRRadioStatus::last_rst
    low_rssi,          \* TDRRadioStatus::low_rssi
    mutex,             \* TDRRadioStatus::mutex: [owner, count]
    has_radio_status,  \* TDRRadioPlugin::has_radio_status
    published,         \* records handed to status_pub.publish, oldest first
    warned,            \* ROS_WARN_THROTTLE_NAMED has been invoked
    pc,                \* position of every thread
    idx,               \* per producer: RST_COPY lines of set() done
    cur,               \* per producer: the message of the call in progress
    stat,              \* per reader: the DiagnosticStatusWrapper being filled
    dbm,               \* per reader: locals rssi_dbm, remrssi_dbm
    last_report,       \* history: what the most recent run() to return reported
    setlog,            \* history: the arguments of the set() calls, in lock order
    nmsgs,             \* history: message_rx_cb calls so far
    pref_done          \* history: a RADIO_STATUS callback has returned

tracker == <<data_received, last_rst, low_rssi, mutex>>

plugin == <<has_radio_status, published, warned>>

history == <<last_report, setlog, nmsgs, pref_done>>

vars == <<data_received, last_rst, low_rssi, mutex, has_radio_status, published,
          warned, pc, idx, cur, stat, dbm, last_report, setlog, nmsgs, pref_done>>

\* a status wrapper nothing has been written to; epoch: the number of set()
\* calls that had taken the lock when run() took it
EmptyStat == [level |-> -1, message |-> "", values |-> <<>>, epoch |-> 0]

NoDbm == [rssi_dbm |-> 0, remrssi_dbm |-> 0]

\* TDRRadioStatus(name, _low_rssi)
TDRRadioStatus(_low_rssi) ==
    /\ data_received = FALSE
    /\ low_rssi = _low_rssi
    /\ last_rst = ZeroRst
    /\ mutex = [owner |-> NoThread, count |-> 0]

\* TDRRadioPlugin()
TDRRadioPlugin ==
    /\ TDRRadioStatus(PLUGIN_LOW_RSSI)
    /\ has_radio_status = FALSE
    /\ published = <<>>
    /\ warned = FALSE

ThreadsIdle ==
    /\ pc = [t \in Threads |-> "idle"]
    /\ idx = [p \in Producers |-> 0]
    /\ cur = [p \in Producers |-> NoMsg]
    /\ stat = [r \in Readers |-> EmptyStat]
    /\ dbm = [r \in Readers |-> NoDbm]
    /\ last_report = EmptyStat
    /\ nmsgs = 0
    /\ pref_done = FALSE

Init == TDRRadioPlugin /\ ThreadsIdle /\ setlog = <<>>

(* --------------------------- recursive_mutex -------------------------- *)

\* faulty variant: the lock excludes nobody
CanLock_NoExclusion(t) == TRUE

\* boost::recursive_mutex::scoped_lock: the constructor returns once the
\* mutex is free or already owned by the calling thread
CanLock(t) == mutex.owner = NoThread \/ mutex.owner = t

Locked(t) == [owner |-> t, count |-> mutex.count + 1]

\* ~scoped_lock
Unlocked ==
    IF mutex.count = 1 THEN [owner |-> NoThread, count |-> 0]
    ELSE [mutex EXCEPT !.count = @ - 1]

(* ------------------------- TDRRadioPlugin ------------------------------ *)

\* message_rx_cb entry and the switch on msg->msgid
message_rx_cb(p, m) ==
    /\ pc[p] = "idle"
    /\ nmsgs < MaxMsgs
    /\ nmsgs' = nmsgs + 1
    /\ IF m.msgid = MAVLINK_MSG_ID_RADIO_STATUS
       THEN /\ pc' = [pc EXCEPT ![p] = "cb_radio_status"]
            /\ cur' = [cur EXCEPT ![p] = [NoMsg EXCEPT !.msgid = m.msgid,
                                                       !.ident = m.ident,
                                                       !.rst = Decode(m.payload)]]
       ELSE IF m.msgid = MAVLINK_MSG_ID_RADIO
       THEN /\ pc' = [pc EXCEPT ![p] = "cb_radio"]
            /\ cur' = [cur EXCEPT ![p] = [NoMsg EXCEPT !.msgid = m.msgid,
                                                       !.ident = m.ident,
                                                       !.rst = m.payload,
                                                       !.late = pref_done]]
       ELSE UNCHANGED <<pc, cur>>
    /\ UNCHANGED <<tracker, plugin, idx, stat, dbm, last_report, setlog, pref_done>>

\* faulty variant: the RADIO_STATUS case sets the latch and returns
RadioStatusCase_LatchOnly(p) ==
    /\ pc[p] = "cb_radio_status"
    /\ has_radio_status' = TRUE
    /\ pc' = [pc EXCEPT ![p] = "idle"]
    /\ cur' = [cur EXCEPT ![p] = NoMsg]
    /\ UNCHANGED <<tracker, published, warned, idx, stat, dbm, history>>

\* case MAVLINK_MSG_ID_RADIO_STATUS: has_radio_status = true
RadioStatusCase(p) ==
    /\ pc[p] = "cb_radio_status"
    /\ has_radio_status' = TRUE
    /\ pc' = [pc EXCEPT ![p] = "hm_warn"]
    /\ UNCHANGED <<tracker, published, warned, idx, cur, stat, dbm, history>>

\* faulty variant: the legacy case lacks the has_radio_status test
RadioCase_NoSuppress(p) ==
    /\ pc[p] = "cb_radio"
    /\ pc' = [pc EXCEPT ![p] = "hm_warn"]
    /\ cur' = [cur EXCEPT ![p].rst = Decode(@)]
    /\ UNCHANGED <<tracker, plugin, idx, stat, dbm, history>>

\* faulty variant: a suppressed legacy message re-arms the legacy path
RadioCase_ClearsFlag(p) ==
    /\ pc[p] = "cb_radio"
    /\ IF has_radio_status
       THEN /\ pc' = [pc EXCEPT ![p] = "idle"]
            /\ cur' = [cur EXCEPT ![p] = NoMsg]
            /\ has_radio_status' = FALSE
       ELSE /\ pc' = [pc EXCEPT ![p] = "hm_warn"]
            /\ cur' = [cur EXCEPT ![p].rst = Decode(@)]
            /\ UNCHANGED has_radio_status
    /\ UNCHANGED <<tracker, published, warned, idx, stat, dbm, history>>

\* faulty variant: the test of has_radio_status is inverted
RadioCase_Inverted(p) ==
    /\ pc[p] = "cb_radio"
    /\ IF ~has_radio_status
       THEN /\ pc' = [pc EXCEPT ![p] = "idle"]
            /\ cur' = [cur EXCEPT ![p] = NoMsg]
       ELSE /\ pc' = [pc EXCEPT ![p] = "hm_warn"]
            /\ cur' = [cur EXCEPT ![p].rst = Decode(@)]
    /\ UNCHANGED <<tracker, plugin, idx, stat, dbm, history>>

\* case MAVLINK_MSG_ID_RADIO: if (has_radio_status) return; else decode
RadioCase(p) ==
    /\ pc[p] = "cb_radio"
    /\ IF has_radio_status
       THEN /\ pc' = [pc EXCEPT ![p] = "idle"]
            /\ cur' = [cur EXCEPT ![p] = NoMsg]
       ELSE /\ pc' = [pc EXCEPT ![p] = "hm_warn"]
            /\ cur' = [cur EXCEPT ![p].rst = Decode(@)]
    /\ UNCHANGED <<tracker, plugin, idx, stat, dbm, history>>

\* sysid != '3' || compid != 'D'
IdentMismatch(ident) == ident[1] # SYSID_3DR \/ ident[2] # COMPID_3DR

\* faulty variant: a sample of unexpected provenance is dropped
HandleMessageWarn_Rejects(p) ==
    /\ pc[p] = "hm_warn"
    /\ warned' = (warned \/ IdentMismatch(cur[p].ident))
    /\ pc' = [pc EXCEPT ![p] = IF IdentMismatch(cur[p].ident) THEN "hm_ret" ELSE "set_lock"]
    /\ UNCHANGED <<tracker, has_radio_status, published, idx, cur, stat, dbm, history>>

\* handle_message: the provenance check and its warning
HandleMessageWarn(p) ==
    /\ pc[p] = "hm_warn"
    /\ warned' = (warned \/ IdentMismatch(cur[p].ident))
    /\ pc' = [pc EXCEPT ![p] = "set_lock"]
    /\ UNCHANGED <<tracker, has_radio_status, published, idx, cur, stat, dbm, history>>

\* faulty variant: set() without the scoped_lock
SetLock_NoLock(p) ==
    /\ pc[p] = "set_lock"
    /\ setlog' = Append(setlog, cur[p].rst)
    /\ cur' = [cur EXCEPT ![p].sets = @ + 1]
    /\ pc' = [pc EXCEPT ![p] = "set_data_received"]
    /\ UNCHANGED <<tracker, plugin, idx, stat, dbm, last_report, nmsgs, pref_done>>

\* TDRRadioStatus::set: scoped_lock lock(mutex)
SetLock(p) ==
    /\ pc[p] = "set_lock"
    /\ CanLock(p)
    /\ mutex' = Locked(p)
    /\ setlog' = Append(setlog, cur[p].rst)
    /\ cur' = [cur EXCEPT ![p].sets = @ + 1]
    /\ pc' = [pc EXCEPT ![p] = "set_data_received"]
    /\ UNCHANGED <<data_received, last_rst, low_rssi, plugin, idx, stat, dbm,
                   last_report, nmsgs, pref_done>>

\* faulty variant: data_received = !data_received
SetDataReceived_Toggle(p) ==
    /\ pc[p] = "set_data_received"
    /\ data_received' = ~data_received
    /\ pc' = [pc EXCEPT ![p] = "set_copy"]
    /\ UNCHANGED <<last_rst, low_rssi, mutex, plugin, idx, cur, stat, dbm, history>>

\* faulty variant: set() copies the sample without setting data_received
SetDataReceived_Skipped(p) ==
    /\ pc[p] = "set_data_received"
    /\ pc' = [pc EXCEPT ![p] = "set_copy"]
    /\ UNCHANGED <<tracker, plugin, idx, cur, stat, dbm, history>>

\* TDRRadioStatus::set: data_received = true
SetDataReceived(p) ==
    /\ pc[p] = "set_data_received"
    /\ data_received' = TRUE
    /\ pc' = [pc EXCEPT ![p] = "set_copy"]
    /\ UNCHANGED <<last_rst, low_rssi, mutex, plugin, idx, cur, stat, dbm, history>>

\* faulty variant: the RST_COPY(fixed) line is missing
SetCopy_SkipsFixed(p) ==
    /\ pc[p] = "set_copy"
    /\ LET f == FieldOrder[idx[p] + 1]
       IN  last_rst' = IF f = "fixed" THEN last_rst
                       ELSE [last_rst EXCEPT ![f] = cur[p].rst[f]]
    /\ idx' = [idx EXCEPT ![p] = @ + 1]
    /\ pc' = [pc EXCEPT ![p] = IF idx[p] + 1 = Len(FieldOrder) THEN "set_unlock" ELSE "set_copy"]
    /\ UNCHANGED <<data_received, low_rssi, mutex, plugin, cur, stat, dbm, history>>

\* TDRRadioStatus::set: one RST_COPY(field) line
SetCopy(p) ==
    /\ pc[p] = "set_copy"
    /\ LET f == FieldOrder[idx[p] + 1]
       IN  last_rst' = [last_rst EXCEPT ![f] = cur[p].rst[f]]
    /\ idx' = [idx EXCEPT ![p] = @ + 1]
    /\ pc' = [pc EXCEPT ![p] = IF idx[p] + 1 = Len(FieldOrder) THEN "set_unlock" ELSE "set_copy"]
    /\ UNCHANGED <<data_received, low_rssi, mutex, plugin, cur, stat, dbm, history>>

\* faulty variant: set() returns with the lock still held
SetUnlock_KeepsLock(p) ==
    /\ pc[p] = "set_unlock"
    /\ pc' = [pc EXCEPT ![p] = "hm_publish"]
    /\ idx' = [idx EXCEPT ![p] = 0]
    /\ UNCHANGED <<tracker, plugin, cur, stat, dbm, history>>

\* TDRRadioStatus::set: end of scope, the lock is released
SetUnlock(p) ==
    /\ pc[p] = "set_unlock"
    /\ mutex' = Unlocked
    /\ pc' = [pc EXCEPT ![p] = "hm_publish"]
    /\ idx' = [idx EXCEPT ![p] = 0]
    /\ UNCHANGED <<data_received, last_rst, low_rssi, plugin, cur, stat, dbm, history>>

\* faulty variant: a record equal to the last one published is not sent again
HandleMessagePublish_SkipsRepeat(p) ==
    /\ pc[p] = "hm_publish"
    /\ published' = IF published # <<>> /\ published[Len(published)] = cur[p].rst
                     THEN published
                     ELSE Append(published, [f \in DOMAIN cur[p].rst |-> cur[p].rst[f]])
    /\ cur' = [cur EXCEPT ![p].pubs = @ + 1]
    /\ pc' = [pc EXCEPT ![p] = "hm_ret"]
    /\ UNCHANGED <<tracker, has_radio_status, warned, idx, stat, dbm, history>>

\* handle_message: build mavros::RadioStatus from rst and publish it
\* (header.stamp, the wall clock at emission, is not part of the state)
HandleMessagePublish(p) ==
    /\ pc[p] = "hm_publish"
    /\ published' = Append(published, [f \in DOMAIN cur[p].rst |-> cur[p].rst[f]])
    /\ cur' = [cur EXCEPT ![p].pubs = @ + 1]
    /\ pc' = [pc EXCEPT ![p] = "hm_ret"]
    /\ UNCHANGED <<tracker, has_radio_status, warned, idx, stat, dbm, history>>

\* handle_message returns; break; message_rx_cb returns
HandleMessageReturn(p) ==
    /\ pc[p] = "hm_ret"
    /\ pc' = [pc EXCEPT ![p] = "idle"]
    /\ cur' = [cur EXCEPT ![p] = NoMsg]
    /\ pref_done' = (pref_done \/ cur[p].msgid = MAVLINK_MSG_ID_RADIO_STATUS)
    /\ UNCHANGED <<tracker, plugin, idx, stat, dbm, last_report, setlog, nmsgs>>

(* ------------------------- TDRRadioStatus::run ------------------------ *)

\* faulty variant: the thresholds are tested before data_received
Summary_ThresholdFirst(dr, rssi, remrssi, threshold) ==
    IF rssi < threshold THEN <<1, "Low RSSI">>
    ELSE IF remrssi < threshold THEN <<1, "Low remote RSSI">>
    ELSE IF ~dr THEN <<2, "No data">>
    ELSE <<0, "Normal">>

\* faulty variant: <= in place of <
Summary_NonStrict(dr, rssi, remrssi, threshold) ==
    IF ~dr THEN <<2, "No data">>
    ELSE IF rssi <= threshold THEN <<1, "Low RSSI">>
    ELSE IF remrssi <= threshold THEN <<1, "Low remote RSSI">>
    ELSE <<0, "Normal">>

\* faulty variant: no data is reported at the warning level
Summary_NoDataAsWarn(dr, rssi, remrssi, threshold) ==
    IF ~dr THEN <<1, "No data">>
    ELSE IF rssi < threshold THEN <<1, "Low RSSI">>
    ELSE IF remrssi < threshold THEN <<1, "Low remote RSSI">>
    ELSE <<0, "Normal">>

\* the if / else if chain choosing stat.summary(level, message)
Summary(dr, rssi, remrssi, threshold) ==
    IF ~dr THEN <<2, "No data">>
    ELSE IF rssi < threshold THEN <<1, "Low RSSI">>
    ELSE IF remrssi < threshold THEN <<1, "Low remote RSSI">>
    ELSE <<0, "Normal">>

\* the nine stat.addf lines, in order: key and formatted value
AddfEntry(i, rst, d) ==
    CASE i = 1 -> <<"RSSI", FmtU(rst.rssi)>>
      [] i = 2 -> <<"RSSI (dBm)", FmtF1(d.rssi_dbm)>>
      [] i = 3 -> <<"Remote RSSI", FmtU(rst.remrssi)>>
      [] i = 4 -> <<"Remote RSSI (dBm)", FmtF1(d.remrssi_dbm)>>
      [] i = 5 -> <<"Tx buffer (%)", FmtU(rst.txbuf)>>
      [] i = 6 -> <<"Noice level", FmtU(rst.noise)>>
      [] i = 7 -> <<"Remote noice level", FmtU(rst.remnoise)>>
      [] i = 8 -> <<"Rx errors", FmtU(rst.rxerrors)>>
      [] i = 9 -> <<"Fixed", FmtU(rst.fixed)>>

NumAddf == 9

\* run(stat) is called, with a fresh status wrapper
RunCall(r) ==
    /\ pc[r] = "idle"
    /\ pc' = [pc EXCEPT ![r] = "run_lock"]
    /\ UNCHANGED <<tracker, plugin, idx, cur, stat, dbm, history>>

\* TDRRadioStatus::run: scoped_lock lock(mutex)
RunLock(r) ==
    /\ pc[r] = "run_lock"
    /\ CanLock(r)
    /\ mutex' = Locked(r)
    /\ stat' = [stat EXCEPT ![r] = [EmptyStat EXCEPT !.epoch = Len(setlog)]]
    /\ pc' = [pc EXCEPT ![r] = "run_summary"]
    /\ UNCHANGED <<data_received, last_rst, low_rssi, plugin, idx, cur, dbm, history>>

\* stat.summary(...)
RunSummary(r) ==
    /\ pc[r] = "run_summary"
    /\ LET s == Summary(data_received, last_rst.rssi, last_rst.remrssi, low_rssi)
       IN  stat' = [stat EXCEPT ![r].level = s[1], ![r].message = s[2]]
    /\ pc' = [pc EXCEPT ![r] = "run_dbm"]
    /\ UNCHANGED <<tracker, plugin, idx, cur, dbm, history>>

\* float rssi_dbm = (last_rst.rssi / 1.9) - 127; float remrssi_dbm = ...
RunDbm(r) ==
    /\ pc[r] = "run_dbm"
    /\ dbm' = [dbm EXCEPT ![r] = [rssi_dbm |-> Dbm19(last_rst.rssi),
                                  remrssi_dbm |-> Dbm19(last_rst.remrssi)]]
    /\ pc' = [pc EXCEPT ![r] = "run_addf"]
    /\ UNCHANGED <<tracker, plugin, idx, cur, stat, history>>

\* faulty variant: without data the two dBm entries are left out
RunAddf_SkipsDbmWithoutData(r) ==
    /\ pc[r] = "run_addf"
    /\ stat' = [stat EXCEPT ![r].values =
                  IF data_received
                  THEN [i \in 1..NumAddf |-> AddfEntry(i, last_rst, dbm[r])]
                  ELSE [k \in 1..7 |-> AddfEntry(<<1, 3, 5, 6, 7, 8, 9>>[k], last_rst, dbm[r])]]
    /\ pc' = [pc EXCEPT ![r] = "run_unlock"]
    /\ UNCHANGED <<tracker, plugin, idx, cur, dbm, history>>

\* the nine stat.addf(key, fmt, value) lines
RunAddf(r) ==
    /\ pc[r] = "run_addf"
    /\ stat' = [stat EXCEPT ![r].values = [i \in 1..NumAddf |-> AddfEntry(i, last_rst, dbm[r])]]
    /\ pc' = [pc EXCEPT ![r] = "run_unlock"]
    /\ UNCHANGED <<tracker, plugin, idx, cur, dbm, history>>

\* faulty variant: reporting consumes the stored sample
RunUnlock_ConsumesSample(r) ==
    /\ pc[r] = "run_unlock"
    /\ mutex' = Unlocked
    /\ last_rst' = ZeroRst
    /\ last_report' = stat[r]
    /\ stat' = [stat EXCEPT ![r] = EmptyStat]
    /\ dbm' = [dbm EXCEPT ![r] = NoDbm]
    /\ pc' = [pc EXCEPT ![r] = "idle"]
    /\ UNCHANGED <<data_received, low_rssi, plugin, idx, cur, setlog, nmsgs, pref_done>>

\* faulty variant: reporting marks the stored sample as stale
RunUnlock_MarksStale(r) ==
    /\ pc[r] = "run_unlock"
    /\ mutex' = Unlocked
    /\ data_received' = FALSE
    /\ last_report' = stat[r]
    /\ stat' = [stat EXCEPT ![r] = EmptyStat]
    /\ dbm' = [dbm EXCEPT ![r] = NoDbm]
    /\ pc' = [pc EXCEPT ![r] = "idle"]
    /\ UNCHANGED <<last_rst, low_rssi, plugin, idx, cur, setlog, nmsgs, pref_done>>

\* end of run: the lock is released and the caller has the filled wrapper
RunUnlock(r) ==
    /\ pc[r] = "run_unlock"
    /\ mutex' = Unlocked
    /\ last_report' = stat[r]
    /\ stat' = [stat EXCEPT ![r] = EmptyStat]
    /\ dbm' = [dbm EXCEPT ![r] = NoDbm]
    /\ pc' = [pc EXCEPT ![r] = "idle"]
    /\ UNCHANGED <<data_received, last_rst, low_rssi, plugin, idx, cur, setlog,
                   nmsgs, pref_done>>

(* ---------------------------- specification --------------------------- *)

ProducerStep(p) ==
    \/ \E m \in Messages : message_rx_cb(p, m)
    \/ RadioStatusCase(p)
    \/ RadioCase(p)
    \/ HandleMessageWarn(p)
    \/ SetLock(p)
    \/ SetDataReceived(p)
    \/ SetCopy(p)
    \/ SetUnlock(p)
    \/ HandleMessagePublish(p)
    \/ HandleMessageReturn(p)

ReaderStep(r) ==
    \/ RunCall(r)
    \/ RunLock(r)
    \/ RunSummary(r)
    \/ RunDbm(r)
    \/ RunAddf(r)
    \/ RunUnlock(r)

Next ==
    \/ \E p \in Producers : ProducerStep(p)
    \/ \E r \in UpdaterThreads : ReaderStep(r)

\* the plugin: producers deliver messages, the updater polls the diagnostic
\* task
Spec == Init /\ [][Next]_vars

\* the steps of a call that has started
ProducerProgress(p) == pc[p] # "idle" /\ ProducerStep(p)

ReaderProgress(r) == pc[r] # "idle" /\ ReaderStep(r)

\* a thread that can run is scheduled, and a thread blocked in scoped_lock
\* takes the mutex if the mutex stays free; the mutex promises no order
\* among the threads that want it, so a waiter can be overtaken
Fairness ==
    /\ \A p \in Producers : WF_vars(ProducerProgress(p))
    /\ \A r \in Readers : WF_vars(ReaderProgress(r))

\* one thread calls set() through message_rx_cb, several threads call run()
NextFair ==
    \/ \E p \in ReceiveThreads : ProducerStep(p)
    \/ \E r \in Readers : ReaderStep(r)

\* the tracker shared by one producer and several readers, fairly scheduled
SpecFair == Init /\ [][NextFair]_vars /\ Fairness

(* ------------------- the diagnostic task on its own -------------------- *)

\* thresholds a TDRRadioStatus is constructed with
Thresholds == {0, 1, PLUGIN_LOW_RSSI, UINT8_MAX}

\* rssi / remrssi values of the stored sample: every tenth value of the
\* uint8 range, the ends, and the neighbours of the thresholds and of the
\* values 30 and 50
RssiGrid ==
    {v \in 0..UINT8_MAX :
        \/ v % 10 = 0
        \/ v \in {1, 2, UINT8_MAX - 1, UINT8_MAX}
        \/ \E c \in {30, PLUGIN_LOW_RSSI, 50} : v \in {c - 1, c + 1}}

\* the five other fields of the stored sample
OtherFields == { <<0, 0, 0, 0, 0>>, <<100, UINT8_MAX, 9, UINT16_MAX, 1000>> }

\* a TDRRadioStatus constructed with any threshold and not yet updated
InitFresh ==
    /\ \E T \in Thresholds : TDRRadioStatus(T) /\ low_rssi = T
    /\ has_radio_status = FALSE
    /\ published = <<>>
    /\ warned = FALSE
    /\ ThreadsIdle
    /\ setlog = <<>>

\* the same after one set(s)
InitAfterSet ==
    \E T \in Thresholds, a \in RssiGrid, b \in RssiGrid, o \in OtherFields :
        /\ low_rssi = T
        /\ data_received = TRUE
        /\ last_rst = MkRst(a, b, o[1], o[2], o[3], o[4], o[5])
        /\ mutex = [owner |-> NoThread, count |-> 0]
        /\ has_radio_status = FALSE
        /\ published = <<>>
        /\ warned = FALSE
        /\ ThreadsIdle
        /\ setlog = <<MkRst(a, b, o[1], o[2], o[3], o[4], o[5])>>

\* only run() is called
NextRun == \E r \in UpdaterThreads : ReaderStep(r)

InitTracker == InitFresh \/ InitAfterSet

SpecRun == InitTracker /\ [][NextRun]_vars

(* ------------------------------ properties ----------------------------- *)

\* position of each raw field among the nine entries of a report
RawPos == <<1, 3, 5, 6, 7, 8, 9>>

Complete(rep) == Len(rep.values) = NumAddf

\* the seven raw entries of rep are those of the sample src
RawFrom(rep, src) ==
    \A k \in 1..Len(FieldOrder) : rep.values[RawPos[k]][2] = FmtU(src[FieldOrder[k]])

\* the reports in sight: the one the last run() returned and those filled in
CompleteReports == {rep \in {last_report} \cup {stat[r] : r \in Readers} : Complete(rep)}

\* thread p takes a step
StepOf(p) == pc'[p] # pc[p] \/ idx'[p] # idx[p] \/ cur'[p] # cur[p]

AllIdle == \A t \in Threads : pc[t] = "idle"

\* C1: the seven raw fields of every report come from one set() call, or
\* are the initial zeros when no set() had taken the lock before that run()
C1_AtomicSnapshot ==
    \A rep \in CompleteReports :
        \/ rep.epoch = 0 /\ RawFrom(rep, ZeroRst)
        \/ \E e \in 1..Len(setlog) : RawFrom(rep, setlog[e])

\* a report is filled in from the first set() while another producer,
\* carrying a different sample, waits for the lock
C1_Witness ==
    \E r \in Readers, p \in Producers :
        /\ pc[r] = "run_unlock"
        /\ stat[r].epoch = 1
        /\ RawFrom(stat[r], setlog[1])
        /\ pc[p] = "set_lock"
        /\ cur[p].rst # setlog[1]

\* C2: a legacy call that starts after a RADIO_STATUS call has returned
\* changes neither data_received, last_rst nor the published records
C2_Suppression ==
    [][\A p \in Producers :
          (cur[p].msgid = MAVLINK_MSG_ID_RADIO /\ cur[p].late /\ StepOf(p))
              => UNCHANGED <<data_received, last_rst, published>>]_vars

\* a legacy call has been dispatched after a RADIO_STATUS call returned,
\* with a sample other than the stored one
C2_Witness ==
    \E p \in Producers :
        /\ pc[p] = "cb_radio"
        /\ cur[p].late
        /\ cur[p].rst # last_rst

\* C3: has_radio_status starts false, the RADIO_STATUS case sets it, nothing
\* else changes it and nothing ever clears it
C3_Latch ==
    /\ ~has_radio_status
    /\ [][/\ has_radio_status => has_radio_status'
          /\ \A p \in Producers :
                (pc[p] = "cb_radio_status" /\ StepOf(p)) => has_radio_status'
          /\ has_radio_status' # has_radio_status
                => \E p \in Producers : pc[p] = "cb_radio_status" /\ StepOf(p)]_vars

\* the flag is set and a legacy message and a render have followed
C3_Witness ==
    /\ has_radio_status
    /\ pref_done
    /\ nmsgs = MaxMsgs
    /\ AllIdle
    /\ Len(published) = 1
    /\ Complete(last_report) /\ last_report.epoch = 1

\* C4: data_received is FALSE (NoData) or TRUE (HasData); it starts FALSE,
\* the data_received line of every set() leaves it TRUE, nothing else
\* changes it and it never goes back to FALSE
C4_OneWay ==
    /\ data_received = FALSE
    /\ [][/\ data_received' \in BOOLEAN
          /\ data_received => data_received'
          /\ \A p \in Producers :
                (pc[p] = "set_data_received" /\ StepOf(p)) => data_received'
          /\ data_received' # data_received
                => \E p \in Producers : pc[p] = "set_data_received" /\ StepOf(p)]_vars

\* HasData after a second set() and a render
C4_Witness ==
    /\ data_received
    /\ Len(setlog) = 2
    /\ AllIdle
    /\ Complete(last_report) /\ last_report.epoch = 2

\* the summary the specification prescribes, by disjoint cases
ClaimedSummary(dr, a, b, T) ==
    CASE ~dr                   -> <<2, "No data">>
      [] dr /\ a < T           -> <<1, "Low RSSI">>
      [] dr /\ a >= T /\ b < T -> <<1, "Low remote RSSI">>
      [] dr /\ a >= T /\ b >= T -> <<0, "Normal">>

\* the reports whose summary has been chosen
SummarisedReports == {rep \in {last_report} \cup {stat[r] : r \in Readers} : rep.level # -1}

\* C5: a run() that takes the lock before any set() reports "No data",
\* whatever the threshold
C5_NoDataBeforeSet ==
    \A rep \in SummarisedReports :
        rep.epoch = 0 => rep.level = 2 /\ rep.message = "No data"

\* "No data" is reported with the largest threshold, the zeroed rssi below it
C5_Witness ==
    \E r \in Readers :
        /\ pc[r] = "run_unlock"
        /\ stat[r].epoch = 0
        /\ stat[r].message = "No data"
        /\ low_rssi = UINT8_MAX
        /\ last_rst.rssi < low_rssi

\* C6: the summary of every report is the first match of: no data; rssi
\* below the threshold; remrssi below the threshold; normal - with strict
\* comparisons (the tracker does not change while SpecRun renders)
C6_Classification ==
    \A rep \in SummarisedReports :
        <<rep.level, rep.message>> =
            ClaimedSummary(data_received, last_rst.rssi, last_rst.remrssi, low_rssi)

\* rssi and remrssi both equal to the threshold 40 are reported "Normal"
C6_Witness ==
    \E r \in Readers :
        /\ pc[r] = "run_unlock"
        /\ data_received
        /\ low_rssi = PLUGIN_LOW_RSSI
        /\ last_rst.rssi = low_rssi /\ last_rst.remrssi = low_rssi
        /\ stat[r].level = 0 /\ stat[r].message = "Normal"

\* C7: when set(s) is about to release the lock the stored sample is s, and
\* a report whose run() took the lock after e set() calls shows the raw
\* fields and the summary of the e-th sample alone
C7_LastWriterWins ==
    /\ \A p \in Producers :
          pc[p] = "set_unlock" => data_received /\ last_rst = cur[p].rst
    /\ \A rep \in CompleteReports :
          rep.epoch >= 1 =>
              LET s == setlog[rep.epoch]
              IN  /\ RawFrom(rep, s)
                  /\ <<rep.level, rep.message>> =
                         ClaimedSummary(TRUE, s.rssi, s.remrssi, low_rssi)

\* a report made after the second set(), whose sample differs from the first
C7_Witness ==
    \E r \in Readers :
        /\ pc[r] = "run_unlock"
        /\ stat[r].epoch = 2
        /\ setlog[1] # setlog[2]
        /\ RawFrom(stat[r], setlog[2])

\* C8: a report filled in with no set() since the previous run() is the
\* previous report, entry for entry
C8_Idempotent ==
    \A r \in Readers :
        (pc[r] = "run_unlock" /\ Complete(last_report)
            /\ last_report.epoch = stat[r].epoch)
        => stat[r] = last_report

\* a second report of the same stored sample
C8_Witness ==
    \E r \in Readers :
        /\ pc[r] = "run_unlock"
        /\ Complete(last_report)
        /\ last_report.epoch = 1 /\ stat[r].epoch = 1
        /\ stat[r].message = "Low RSSI"

\* C9: low_rssi is 40 from construction on, no step of run() changes
\* data_received, last_rst or low_rssi, and last_rst and data_received
\* change only in steps of set()
C9_RunFrame ==
    /\ low_rssi = PLUGIN_LOW_RSSI
    /\ [][/\ low_rssi' = low_rssi
          /\ \A r \in Readers :
                pc'[r] # pc[r] => UNCHANGED <<data_received, last_rst, low_rssi>>
          /\ <<data_received, last_rst>>' # <<data_received, last_rst>>
                => \E p \in Producers :
                      pc[p] \in {"set_data_received", "set_copy"} /\ StepOf(p)]_vars

\* a render has returned and the sample it reported is still stored
C9_Witness ==
    /\ Complete(last_report)
    /\ last_report.epoch = 1
    /\ Len(setlog) = 1
    /\ AllIdle
    /\ data_received /\ last_rst = setlog[1]
    /\ low_rssi = PLUGIN_LOW_RSSI

\* C10: whatever (sysid, compid), handle_message returns having stored its
\* sample with one set() and published it once; a mismatch only warns
C10_NoRejection ==
    \A p \in Producers :
        /\ pc[p] = "set_unlock" => last_rst = cur[p].rst
        /\ pc[p] = "hm_ret" =>
              /\ cur[p].sets = 1 /\ cur[p].pubs = 1
              /\ \E i \in 1..Len(setlog) : setlog[i] = cur[p].rst
              /\ \E i \in 1..Len(published) : published[i] = cur[p].rst
        /\ (pc[p] \notin {"idle", "cb_radio_status", "cb_radio", "hm_warn"}
              /\ IdentMismatch(cur[p].ident)) => warned

\* a sample with a foreign sysid has been stored and published
C10_Witness ==
    \E p \in Producers :
        /\ pc[p] = "hm_ret"
        /\ IdentMismatch(cur[p].ident)
        /\ last_rst = cur[p].rst
        /\ published[Len(published)] = cur[p].rst

\* positions of a producer inside the body of set(), the lock held
SetBody == {"set_data_received", "set_copy", "set_unlock"}

\* set() calls that have returned
CompletedSets == Len(setlog) - Cardinality({p \in Producers : pc[p] \in SetBody})

\* set() has returned and the publish is still to come
AwaitingPublish == {p \in Producers : pc[p] = "hm_publish"}

\* C11 as stated: the number of published records equals the number of
\* tracker updates in every state
C11_CountsAlwaysEqual == Len(published) = CompletedSets

\* C11, amended: a call publishes once, after its one set(), the record
\* being the sample it passed to set(); a call that has not updated the
\* tracker has published nothing; and the published records number the
\* completed set() calls less the calls between their set() and their
\* publish - the two counts are equal when there is no such call
C11_ReEmittedOnce ==
    /\ [](/\ Len(published) + Cardinality(AwaitingPublish) = CompletedSets
          /\ Len(published) <= nmsgs
          /\ \A p \in Producers :
                /\ cur[p].pubs <= cur[p].sets /\ cur[p].sets <= 1
                /\ cur[p].pubs = 1 <=> pc[p] = "hm_ret")
    /\ [][published' # published
            => \E p \in Producers :
                  /\ pc[p] = "hm_publish" /\ pc'[p] = "hm_ret"
                  /\ published' = Append(published, cur[p].rst)
                  /\ cur[p].sets = 1 /\ cur[p].pubs = 0
                  /\ \E i \in 1..Len(setlog) : setlog[i] = cur[p].rst]_vars

\* two calls have returned, one stored and published its sample, the other
\* (suppressed or of an unknown id) did neither
C11_Witness ==
    /\ AllIdle
    /\ nmsgs = 2
    /\ Len(setlog) = 1
    /\ published = setlog

\* positions of a reader inside the body of run(), the lock held
RunBody == {"run_summary", "run_dbm", "run_addf", "run_unlock"}

\* thread t is inside the body of set() or of run()
InBody(t) == pc[t] \in SetBody \union RunBody

\* thread t is blocked in the scoped_lock of set() or run()
Waiting(t) == pc[t] \in {"set_lock", "run_lock"}

\* thread t has just taken the lock
JustAcquired(t) == pc[t] \in {"set_data_received", "run_summary"}

C13_MutualExclusion ==
    /\ [](/\ \A t \in Threads : InBody(t) => mutex.owner = t /\ mutex.count >= 1
          /\ \A t, u \in Threads : InBody(t) /\ InBody(u) => t = u
          /\ \A r \in Readers : stat[r] # EmptyStat \/ dbm[r] # NoDbm => mutex.owner = r)
    /\ [][data_received' # data_received \/ last_rst' # last_rst
            => \E p \in Producers :
                  /\ StepOf(p) /\ InBody(p)
                  /\ mutex.owner = p /\ mutex'.owner = p]_vars

\* one producer is half way through its copy while the other producer and
\* the reader both wait for the lock
C13_Witness ==
    /\ \E p \in Producers : pc[p] = "set_copy" /\ idx[p] = 3 /\ mutex.owner = p
    /\ \E q \in Producers : pc[q] = "set_lock"
    /\ \E r \in Readers : pc[r] = "run_lock"

\* C14: "No data" has a level to itself: a report has the no-data level
\* exactly when no sample was received, both low-RSSI messages share another
\* level, and "Normal" has a third
C14_NoDataLevel ==
    \A rep \in SummarisedReports :
        LET NoDataLevel == Summary(FALSE, 0, 0, low_rssi)[1]
        IN  /\ rep.level = NoDataLevel <=> ~data_received
            /\ rep.level = NoDataLevel <=> rep.message = "No data"
            /\ rep.message \in {"Low RSSI", "Low remote RSSI"} => rep.level = 1 /\ data_received
            /\ rep.message = "Normal" => rep.level = 0 /\ data_received
            /\ NoDataLevel \notin {0, 1}
            /\ rep.message \in {"No data", "Low RSSI", "Low remote RSSI", "Normal"}

\* a tracker with the plugin's threshold and no sample has returned a
\* report at the no-data level, its zeroed rssi below the threshold
C14_Witness ==
    /\ AllIdle
    /\ ~data_received
    /\ low_rssi = PLUGIN_LOW_RSSI
    /\ last_rst.rssi < low_rssi
    /\ Complete(last_report)
    /\ last_report.level = 2

\* the tenth nearest to (x / 1.9) - 127, that is to (100x - 24130) / 190
NearestTenth(x) ==
    LET n == 100 * x - 24130
        q == n \div 19
    IN  IF 2 * (n - 19 * q) < 19 THEN q ELSE q + 1

\* a number of tenths written with one decimal
TenthsText(t) ==
    LET mag == IF t < 0 THEN -t ELSE t
    IN  (IF t < 0 THEN "-" ELSE "") \o FmtU(mag \div 10) \o "." \o Digit(mag % 10)

\* C15: the two dBm values of a run() are (rssi / 1.9) - 127 and
\* (remrssi / 1.9) - 127 of the stored sample, and a report shows each, to
\* one decimal, beside the raw value it was computed from
C15_DbmValues ==
    /\ last_rst.rssi \in 0..UINT8_MAX /\ last_rst.remrssi \in 0..UINT8_MAX
    /\ \A r \in Readers :
          pc[r] \in {"run_addf", "run_unlock"} =>
              /\ 19 * (dbm[r].rssi_dbm + 127 * 19) = 190 * last_rst.rssi
              /\ 19 * (dbm[r].remrssi_dbm + 127 * 19) = 190 * last_rst.remrssi
    /\ \A rep \in CompleteReports :
          /\ rep.values[1] = <<"RSSI", FmtU(last_rst.rssi)>>
          /\ rep.values[2] = <<"RSSI (dBm)", TenthsText(NearestTenth(last_rst.rssi))>>
          /\ rep.values[3] = <<"Remote RSSI", FmtU(last_rst.remrssi)>>
          /\ rep.values[4] = <<"Remote RSSI (dBm)", TenthsText(NearestTenth(last_rst.remrssi))>>

\* rssi = 100: the value is -1413/19 = -74.368..., shown as -74.4
C15_Witness ==
    \E r \in Readers :
        /\ pc[r] = "run_unlock"
        /\ last_rst.rssi = 100
        /\ (100 * dbm[r].rssi_dbm) \div 19 = -7437
        /\ stat[r].values[1] = <<"RSSI", "100">>
        /\ stat[r].values[2] = <<"RSSI (dBm)", "-74.4">>

\* no RADIO_STATUS message has reached message_rx_cb
NoPreferredReceived ==
    /\ ~pref_done
    /\ \A q \in Producers : cur[q].msgid # MAVLINK_MSG_ID_RADIO_STATUS

\* C16: while no RADIO_STATUS message has been received has_radio_status
\* is false and a RADIO message passes the test and enters handle_message
\* with its seven fields; once there it is stored by one set() and
\* published once, like a RADIO_STATUS message; and no step of a call for a
\* RADIO message changes has_radio_status
C16_LegacyFallback ==
    /\ [](/\ NoPreferredReceived => ~has_radio_status
          /\ \A p \in Producers :
                cur[p].msgid = MAVLINK_MSG_ID_RADIO =>
                    /\ pc[p] = "set_unlock" => data_received /\ last_rst = cur[p].rst
                    /\ pc[p] = "hm_ret" =>
                          /\ cur[p].sets = 1 /\ cur[p].pubs = 1
                          /\ \E i \in 1..Len(setlog) : setlog[i] = cur[p].rst
                          /\ \E i \in 1..Len(published) : published[i] = cur[p].rst)
    /\ [][\A p \in Producers :
            /\ (NoPreferredReceived /\ pc[p] = "cb_radio" /\ StepOf(p))
                  => /\ pc'[p] = "hm_warn"
                     /\ \A f \in DOMAIN cur[p].rst : cur'[p].rst[f] = cur[p].rst[f]
            /\ (StepOf(p) /\ MAVLINK_MSG_ID_RADIO \in {cur[p].msgid, cur'[p].msgid})
                  => has_radio_status' = has_radio_status]_vars

\* two RADIO messages and no RADIO_STATUS: both were stored and published
\* and the latch is still clear
C16_Witness ==
    /\ AllIdle
    /\ nmsgs = 2
    /\ NoPreferredReceived
    /\ ~has_radio_status
    /\ data_received
    /\ Len(setlog) = 2
    /\ published = setlog

\* the keys of a report, in the order they were added
Keys(rep) == [i \in 1..Len(rep.values) |-> rep.values[i][1]]

\* the nine keys as run() spells them
KeyOrder ==
    <<"RSSI", "RSSI (dBm)", "Remote RSSI", "Remote RSSI (dBm)", "Tx buffer (%)",
      "Noice level", "Remote noice level", "Rx errors", "Fixed">>

\* C17: whatever the tracker holds, a run() that has added its entries has
\* chosen one summary and added the same nine keys in the same order - rssi,
\* its dBm, remrssi, its dBm, txbuf, noise, remnoise, rxerrors, fixed - each
\* with the value of that field; the summary is chosen once per run()
C17_NineKeys ==
    /\ [](/\ \A r \in Readers : pc[r] = "run_unlock" => Complete(stat[r])
          /\ last_report # EmptyStat => Complete(last_report)
          /\ \A rep \in CompleteReports :
                /\ rep.level \in {0, 1, 2}
                /\ Keys(rep) = KeyOrder
                /\ RawFrom(rep, last_rst)
                /\ rep.values[2][2] = TenthsText(NearestTenth(last_rst.rssi))
                /\ rep.values[4][2] = TenthsText(NearestTenth(last_rst.remrssi)))
    /\ [][\A r \in Readers :
            stat[r].level # -1 => stat'[r].level \in {stat[r].level, -1}]_vars

\* the nine entries have been added to a "Low remote RSSI" report
C17_Witness ==
    \E r \in Readers :
        /\ pc[r] = "run_unlock"
        /\ stat[r].message = "Low remote RSSI"
        /\ Len(stat[r].values) = 9
        /\ stat[r].values[9] = <<"Fixed", FmtU(last_rst.fixed)>>

\* C18: while data_received is false the seven fields of last_rst are zero;
\* last_rst is written only by the copy lines of set(), after data_received
\* has been set; and a "No data" report shows zero for every raw field
C18_ZeroBeforeData ==
    /\ [](/\ DOMAIN last_rst = {FieldOrder[i] : i \in 1..Len(FieldOrder)}
          /\ ~data_received => \A f \in DOMAIN last_rst : last_rst[f] = 0
          /\ \A rep \in CompleteReports :
                rep.message = "No data" =>
                    \A k \in 1..Len(RawPos) : rep.values[RawPos[k]][2] = "0")
    /\ [][last_rst' # last_rst
            => /\ data_received
               /\ \E p \in Producers : pc[p] = "set_copy" /\ StepOf(p)]_vars

\* a run() has returned a "No data" report of zeros and the first set() is
\* about to take the lock
C18_Witness ==
    /\ ~data_received
    /\ Complete(last_report)
    /\ last_report.message = "No data"
    /\ last_report.values[8] = <<"Rx errors", "0">>
    /\ \E p \in Producers : pc[p] = "set_lock" /\ cur[p].rst.rxerrors = UINT16_MAX
    /\ mutex.owner = NoThread

\* the set() of a RADIO_STATUS call has returned
PreferredStored ==
    \/ pref_done
    \/ \E q \in Producers :
          cur[q].msgid = MAVLINK_MSG_ID_RADIO_STATUS /\ pc[q] \in {"hm_publish", "hm_ret"}

\* C19: once a RADIO_STATUS sample has been stored no call for a RADIO
\* message enters set(), so that no RADIO sample is stored after it
C19_NoLegacyAfterPreferred ==
    [][\A p \in Producers :
          ~(/\ PreferredStored
            /\ cur[p].msgid = MAVLINK_MSG_ID_RADIO
            /\ pc[p] = "set_lock" /\ pc'[p] = "set_data_received")]_vars

\* a RADIO_STATUS call has returned, and after it the set() of a RADIO call
\* that had passed the has_radio_status test has overwritten its sample
C19_Witness ==
    /\ pref_done /\ has_radio_status
    /\ Len(setlog) = 2 /\ setlog[1] # setlog[2]
    /\ \E p \in Producers :
          /\ cur[p].msgid = MAVLINK_MSG_ID_RADIO
          /\ pc[p] = "hm_publish"
          /\ cur[p].rst = setlog[2]
          /\ last_rst = cur[p].rst

\* no message_rx_cb call is in progress
NoCallInProgress == \A p \in Producers : pc[p] = "idle"

\* C20: when no message_rx_cb call is in progress has_radio_status implies
\* data_received; the latch is set with the tracker still without data only
\* while a RADIO_STATUS call is between setting it and its set()
C20_LatchImpliesData ==
    /\ NoCallInProgress => (has_radio_status => data_received)
    /\ has_radio_status /\ ~data_received
          => \E p \in Producers :
                /\ cur[p].msgid = MAVLINK_MSG_ID_RADIO_STATUS
                /\ pc[p] \in {"hm_warn", "set_lock", "set_data_received"}

\* the one message received was a RADIO_STATUS; its call has returned, a
\* run() is in progress and the latch and data_received are both set
C20_Witness ==
    /\ NoCallInProgress
    /\ nmsgs = 1
    /\ has_radio_status /\ data_received
    /\ published = <<last_rst>>
    /\ \E r \in Readers : pc[r] = "run_summary"

====
